---- MODULE Spec2Model ----
(***************************************************************************)
(* Verification model of the predictive-model framework of uavs_analysis:  *)
(* APredictiveModel (train / forecast / print_training_results and the     *)
(* beta / default_usage accessors) with its two variants BaseLineModel and *)
(* FinalModel.                                                             *)
(*                                                                         *)
(* Numbers.  numpy/pandas floats are modelled by exact rationals <<n, d>>  *)
(* in lowest terms with d > 0; <<0, 0>> is NaN; None is the empty tuple.   *)
(* A fractional power whose result is irrational is kept as the term       *)
(* <<n, d, p, q>> = (n/d)^(p/q), which is canonical because x^(p/q) is     *)
(* injective on x >= 0.                                                    *)
(***************************************************************************)
EXTENDS Integers, Sequences, FiniteSets, TLC

(***************************************************************************)
(* Exact arithmetic                                                        *)
(***************************************************************************)
NaN == <<0, 0>>
None == <<>>
Zero == <<0, 1>>
One == <<1, 1>>

Abs(n) == IF n < 0 THEN -n ELSE n

RECURSIVE GCD(_, _)
GCD(a, b) == IF b = 0 THEN a ELSE GCD(b, a % b)

IsNaN(x) == x[2] = 0

Norm(n, d) ==
    LET g == GCD(Abs(n), Abs(d))
    IN  IF d = 0 THEN NaN
        ELSE IF d < 0 THEN <<(-n) \div g, (-d) \div g>>
        ELSE <<n \div g, d \div g>>

Rat(n) == <<n, 1>>

RAdd(x, y) ==
    IF IsNaN(x) \/ IsNaN(y) THEN NaN
    ELSE LET g == GCD(x[2], y[2])
         IN  Norm(x[1] * (y[2] \div g) + y[1] * (x[2] \div g), (x[2] \div g) * y[2])

RNeg(x) == IF IsNaN(x) THEN NaN ELSE <<-x[1], x[2]>>

RSub(x, y) == RAdd(x, RNeg(y))

RMul(x, y) ==
    IF IsNaN(x) \/ IsNaN(y) THEN NaN
    ELSE LET g1 == GCD(Abs(x[1]), y[2])
             g2 == GCD(Abs(y[1]), x[2])
         IN  Norm((x[1] \div g1) * (y[1] \div g2), (x[2] \div g2) * (y[2] \div g1))

\* x / y; a zero divisor gives NaN (numpy: 0/0) -- the model never divides a
\* non-zero value by zero.
RDiv(x, y) ==
    IF IsNaN(x) \/ IsNaN(y) \/ y[1] = 0 THEN NaN
    ELSE RMul(x, Norm(y[2], y[1]))

\* Integer k-th root of a perfect k-th power, -1 when n is not one.
IRoot(n, k) ==
    LET Pow(r) == IF k = 2 THEN r * r ELSE r * r * r
        c == {r \in 0..n : Pow(r) = n}
    IN  IF c = {} THEN -1 ELSE CHOOSE r \in c : TRUE

\* x ** (p/q) for p/q in {2/3, 3/2, 1/2}: NaN for NaN or negative x (numpy),
\* exact when the q-th root is rational, the term <<n, d, p, q>> otherwise.
RPow(x, p, q) ==
    IF IsNaN(x) \/ x[1] < 0 THEN NaN
    ELSE LET rn == IRoot(x[1], q)
             rd == IRoot(x[2], q)
             Up(r) == IF p = 1 THEN r ELSE IF p = 2 THEN r * r ELSE r * r * r
         IN  IF rn < 0 \/ rd < 0 THEN <<x[1], x[2], p, q>>
             ELSE <<Up(rn), Up(rd)>>

RECURSIVE RSum(_)
RSum(s) == IF s = <<>> THEN Zero ELSE RAdd(s[1], RSum(Tail(s)))

\* A function over 1..n as an explicit tuple (numpy arrays hold values).
Arr(f) == f \o <<>>

Dot(u, v) == RSum(Arr([i \in 1..Len(u) |-> RMul(u[i], v[i])]))

(***************************************************************************)
(* numpy.linalg.lstsq: the minimum-norm least-squares solution X^+ y,      *)
(* computed column by column (Greville).  X is a sequence of rows.         *)
(***************************************************************************)
Column(X, j) == Arr([r \in 1..Len(X) |-> X[r][j]])

\* pinv of the first n columns of X: a sequence of n rows of length Len(X)
RECURSIVE Pinv(_, _)
Pinv(X, n) ==
    IF n = 0 THEN <<>>
    ELSE
      LET m == Len(X)
          P == Pinv(X, n - 1)
          a == Column(X, n)
          d == Arr([i \in 1..(n - 1) |-> Dot(P[i], a)])
          c == Arr([r \in 1..m |-> RSub(a[r], Dot(SubSeq(X[r], 1, n - 1), d))])
          cc == Dot(c, c)
          k == RDiv(One, RAdd(One, Dot(d, d)))
          b == IF cc[1] # 0
               THEN Arr([r \in 1..m |-> RDiv(c[r], cc)])
               ELSE Arr([r \in 1..m |-> RMul(k, Dot(d, Column(P, r)))])
      IN  Arr([i \in 1..n |->
             IF i = n THEN b
             ELSE Arr([r \in 1..m |-> RSub(P[i][r], RMul(d[i], b[r]))])])

\* The outcomes numpy.linalg.lstsq(X, y, rcond=None) can have.  With no rows
\* the solution is the zero vector; a non-finite entry makes the LAPACK
\* driver either raise LinAlgError or return a NaN-filled solution, depending
\* on the build.
lstsq(X, y, n) ==
    IF Len(X) = 0
    THEN {[error |-> "", x |-> Arr([i \in 1..n |-> Zero])]}
    ELSE IF \E r \in 1..Len(X) : IsNaN(y[r]) \/ \E j \in 1..n : IsNaN(X[r][j])
    THEN {[error |-> "LinAlgError", x |-> None],
          [error |-> "", x |-> Arr([i \in 1..n |-> NaN])]}
    ELSE LET P == Pinv(X, n)
         IN  {[error |-> "", x |-> Arr([i \in 1..n |-> Dot(P[i], y)])]}

(***************************************************************************)
(* pandas DataFrame: ordered column names, index labels and one record per *)
(* row.  Booleans are stored as 1 / 0 (True == 1, False == 0 in Python).   *)
(***************************************************************************)
Cols(df) == {df.columns[i] : i \in 1..Len(df.columns)}

NRows(df) == Len(df.index)

Series(df, c) == Arr([i \in 1..NRows(df) |-> df.data[i][c]])

\* df[c] = vals
SetColumn(df, c, vals) ==
    [columns |-> IF c \in Cols(df) THEN df.columns ELSE Append(df.columns, c),
     index   |-> df.index,
     data    |-> Arr([i \in 1..NRows(df) |->
                    [k \in Cols(df) \cup {c} |->
                        IF k = c THEN vals[i] ELSE df.data[i][k]]])]

\* the elements of a set of positions in increasing order
Sorted(S) ==
    Arr([j \in 1..Cardinality(S) |->
        CHOOSE x \in S : Cardinality({y \in S : y < x}) = j - 1])

\* the rows at the given positions, labels kept
Take(df, pos) ==
    [columns |-> df.columns,
     index   |-> Arr([j \in 1..Len(pos) |-> df.index[pos[j]]]),
     data    |-> Arr([j \in 1..Len(pos) |-> df.data[pos[j]]])]

\* Series.diff(): difference with the previous row, NaN in the first
diff(vals) ==
    Arr([i \in 1..Len(vals) |-> IF i = 1 THEN NaN ELSE RSub(vals[i], vals[i - 1])])

dropna(df) ==
    Take(df, Sorted({i \in 1..NRows(df) : \A c \in Cols(df) : ~IsNaN(df.data[i][c])}))

reset_index(df) == [df EXCEPT !.index = Arr([i \in 1..NRows(df) |-> i - 1])]

\* df.loc[label] = [v] * len(df.columns): overwrite the row with that label,
\* or enlarge the frame with a new LAST row
loc_set(df, label, v) ==
    LET row == [k \in Cols(df) |-> v]
    IN  IF \E i \in 1..NRows(df) : df.index[i] = label
        THEN [df EXCEPT !.data = Arr([i \in 1..NRows(df) |->
                                   IF df.index[i] = label THEN row ELSE df.data[i]])]
        ELSE [df EXCEPT !.index = Append(df.index, label),
                        !.data = Append(df.data, row)]

\* df.index += k
index_add(df, k) == [df EXCEPT !.index = Arr([i \in 1..NRows(df) |-> df.index[i] + k])]

\* column names of a list of frames in order of first appearance
RECURSIVE UnionColumns(_)
UnionColumns(dfs) ==
    IF dfs = <<>> THEN <<>>
    ELSE LET head == UnionColumns(SubSeq(dfs, 1, Len(dfs) - 1))
             last == dfs[Len(dfs)].columns
             seen == {head[i] : i \in 1..Len(head)}
         IN  head \o SelectSeq(last, LAMBDA c : c \notin seen)

RECURSIVE ConcatRows(_, _)
ConcatRows(dfs, cols) ==
    IF dfs = <<>> THEN <<>>
    ELSE Arr([i \in 1..NRows(dfs[1]) |->
             [k \in cols |-> IF k \in Cols(dfs[1]) THEN dfs[1].data[i][k] ELSE NaN]])
         \o ConcatRows(Tail(dfs), cols)

\* pd.concat(dfs, ignore_index=True) of a non-empty list
concat(dfs) ==
    LET columns == UnionColumns(dfs)
        data == ConcatRows(dfs, {columns[i] : i \in 1..Len(columns)})
    IN  [columns |-> columns,
         index   |-> Arr([i \in 1..Len(data) |-> i - 1]),
         data    |-> data]

(***************************************************************************)
(* The model variants: the hooks of APredictiveModel and their overrides   *)
(***************************************************************************)
Variants == {"BaseLineModel", "FinalModel"}

\* self._delta_time: the delta_time argument of FinalModel(delta_time), one
\* second between records here (the default argument is 0.17) so that the
\* accelerations are integers and the exact arithmetic stays within range
delta_time == 1

PredictorSpec(variant) ==
    IF variant = "FinalModel"
    THEN <<"total_mass", "force_z", "force_xy", "velocity_xy_factor", "velocity_z_factor">>
    ELSE <<>>

transform_power(variant, power) ==
    IF variant = "FinalModel"
    THEN Arr([i \in 1..Len(power) |-> RPow(power[i], 2, 3)])
    ELSE power

retransform_power(variant, power) ==
    IF variant = "FinalModel"
    THEN Arr([i \in 1..Len(power) |-> RPow(power[i], 3, 2)])
    ELSE power

Sq(x) == RMul(x, x)

\* np.sqrt(x ** 2 + y ** 2)
Hypot(x, y) == RPow(RAdd(Sq(x), Sq(y)), 1, 2)

\* x / self._delta_time
PerDt(x) == RDiv(x, Rat(delta_time))

\* x ** 2 * m ** (2 / 3)
MassFactor(x, m) == RMul(Sq(x), RPow(m, 2, 3))

\* The statements of spec_model_calc act on st: the frame the caller passed
\* and the exception raised so far.  A statement can run when nothing was
\* raised and the columns it reads exist; otherwise it raises KeyError (or
\* is not reached).
Readable(st, needs) == st.error = "" /\ needs \subseteq Cols(st.df)

Fail(st) == IF st.error # "" THEN st ELSE [st EXCEPT !.error = "KeyError"]

Put(st, c, vals) == [st EXCEPT !.df = SetColumn(st.df, c, vals)]

\* line 105
Set_xy_air_speed(st) ==
    IF ~Readable(st, {"vx_anemometer", "vy_anemometer"}) THEN Fail(st)
    ELSE Put(st, "xy_air_speed",
             Arr([i \in 1..NRows(st.df) |->
                 Hypot(st.df.data[i]["vx_anemometer"], st.df.data[i]["vy_anemometer"])]))

\* line 106
Set_xy_air_acceleration(st) ==
    IF ~Readable(st, {"vx_anemometer", "vy_anemometer"}) THEN Fail(st)
    ELSE Put(st, "xy_air_acceleration",
             Arr([i \in 1..NRows(st.df) |->
                 Hypot(PerDt(diff(Series(st.df, "vx_anemometer"))[i]),
                       PerDt(diff(Series(st.df, "vy_anemometer"))[i]))]))

\* line 107
Set_z_acceleration(st) ==
    IF ~Readable(st, {"vz_imu"}) THEN Fail(st)
    ELSE Put(st, "z_acceleration",
             Arr([i \in 1..NRows(st.df) |-> PerDt(diff(Series(st.df, "vz_imu"))[i])]))

\* line 109
Set_force_z(st) ==
    IF ~Readable(st, {"z_acceleration", "total_mass"}) THEN Fail(st)
    ELSE Put(st, "force_z",
             Arr([i \in 1..NRows(st.df) |->
                 RMul(st.df.data[i]["z_acceleration"], st.df.data[i]["total_mass"])]))

\* line 110
Set_force_xy(st) ==
    IF ~Readable(st, {"xy_air_acceleration", "total_mass"}) THEN Fail(st)
    ELSE Put(st, "force_xy",
             Arr([i \in 1..NRows(st.df) |->
                 RMul(st.df.data[i]["xy_air_acceleration"], st.df.data[i]["total_mass"])]))

\* line 112
Set_velocity_xy_factor(st) ==
    IF ~Readable(st, {"xy_air_speed", "total_mass"}) THEN Fail(st)
    ELSE Put(st, "velocity_xy_factor",
             Arr([i \in 1..NRows(st.df) |->
                 MassFactor(st.df.data[i]["xy_air_speed"], st.df.data[i]["total_mass"])]))

\* line 113
Set_velocity_z_factor(st) ==
    IF ~Readable(st, {"vz_imu", "total_mass"}) THEN Fail(st)
    ELSE Put(st, "velocity_z_factor",
             Arr([i \in 1..NRows(st.df) |->
                 MassFactor(st.df.data[i]["vz_imu"], st.df.data[i]["total_mass"])]))

\* The statements of FinalModel.spec_model_calc that write into the frame
\* the caller passed, in order.
FinalModelColumns(df) ==
    Set_velocity_z_factor(Set_velocity_xy_factor(Set_force_xy(Set_force_z(
        Set_z_acceleration(Set_xy_air_acceleration(Set_xy_air_speed(
            [error |-> "", df |-> df])))))))

\* spec_model_calc dropping the rows and adding the zero row in place
FinalModelResult_InPlace(st) ==
    [error  |-> st.error,
     caller |-> IF st.error # "" THEN st.df
                ELSE index_add(loc_set(reset_index(dropna(st.df)), -1, Zero), 1),
     df     |-> IF st.error # "" THEN st.df
                ELSE index_add(loc_set(reset_index(dropna(st.df)), -1, Zero), 1)]

\* lines 116-119 of FinalModel.spec_model_calc on the frame with the new
\* columns: dropna, reset_index, the zero row at label -1, index += 1
FinalModelResult(st) ==
    [error  |-> st.error,
     caller |-> st.df,
     df     |-> IF st.error # "" THEN st.df
                ELSE index_add(loc_set(reset_index(dropna(st.df)), -1, Zero), 1)]

\* spec_model_calc(df): error, the frame the caller passed as the call leaves
\* it (caller), and the frame returned (df)
spec_model_calc(variant, df) ==
    IF variant = "FinalModel"
    THEN FinalModelResult(FinalModelColumns(df))
    ELSE [error |-> "", caller |-> df, df |-> df]

(***************************************************************************)
(* APredictiveModel.train and APredictiveModel.forecast as functions of    *)
(* the model's fields and the frames passed                                *)
(***************************************************************************)
\* a mean that is zero over no rows
mean_ZeroWhenEmpty(vals) ==
    LET kept == SelectSeq(vals, LAMBDA x : ~IsNaN(x))
    IN  IF kept = <<>> THEN Zero ELSE RDiv(RSum(kept), Rat(Len(kept)))

\* Series.mean(): NaN entries are skipped, the mean of nothing is NaN
mean(vals) ==
    LET kept == SelectSeq(vals, LAMBDA x : ~IsNaN(x))
    IN  IF kept = <<>> THEN NaN ELSE RDiv(RSum(kept), Rat(Len(kept)))

\* a design matrix with the column of ones behind the predictors
DesignMatrix_InterceptLast(df, pos, predictors) ==
    Arr([r \in 1..Len(pos) |->
        Arr([j \in 1..Len(predictors) |-> df.data[pos[r]][predictors[j]]]) \o <<One>>])

\* the design matrix of the rows at pos: the intercept column of ones and
\* one column per predictor, in predictors_list order
DesignMatrix(df, pos, predictors) ==
    Arr([r \in 1..Len(pos) |->
        <<One>> \o Arr([j \in 1..Len(predictors) |-> df.data[pos[r]][predictors[j]]])])

\* train raising e after the coefficients were reset
Raise_AfterReset(e, caller) ==
    {[status |-> e, beta |-> <<Zero>>, default_usage |-> None, dfs_list |-> caller]}

\* train raising e: no field is assigned
Raise(e, caller) ==
    {[status |-> e, beta |-> None, default_usage |-> None, dfs_list |-> caller]}

\* train assigning no default usage when the stationary mean is NaN
TrainStore_BaselineUnset(caller, solutions, du) ==
    UNION {IF s.error # "" THEN Raise(s.error, caller)
           ELSE {[status |-> "ok", beta |-> s.x,
                  default_usage |-> IF du = NaN THEN None ELSE du,
                  dfs_list |-> caller]}
           : s \in solutions}

\* lines 186 and 191: self._beta is assigned when lstsq returns, and then
\* self._default_usage
TrainStore(caller, solutions, du) ==
    UNION {IF s.error # "" THEN Raise(s.error, caller)
           ELSE {[status |-> "ok", beta |-> s.x, default_usage |-> du,
                  dfs_list |-> caller]}
           : s \in solutions}

\* train averaging the power indicator over every row
TrainFit_MeanOfAllRows(predictors, caller, all, df1, df2) ==
    TrainStore(caller,
               lstsq(DesignMatrix(all, df1, predictors),
                     Arr([r \in 1..Len(df1) |-> all.data[df1[r]]["power_indicator"]]),
                     Len(predictors) + 1),
               mean(Arr([r \in 1..NRows(all) |-> all.data[r]["power_indicator"]])))

\* lines 179-191: X and y from the moving rows df1, the mean over the
\* stationary rows df2
TrainFit(predictors, caller, all, df1, df2) ==
    TrainStore(caller,
               lstsq(DesignMatrix(all, df1, predictors),
                     Arr([r \in 1..Len(df1) |-> all.data[df1[r]]["power_indicator"]]),
                     Len(predictors) + 1),
               mean(Arr([r \in 1..Len(df2) |-> all.data[df2[r]]["power_indicator"]])))

\* train fitting every row of the merged frame
TrainSplit_AllRows(predictors, caller, all) ==
    IF "is_moving" \notin Cols(all) THEN Raise("KeyError", caller)
    ELSE IF \E j \in 1..Len(predictors) : predictors[j] \notin Cols(all)
    THEN Raise("KeyError", caller)
    ELSE TrainFit(predictors, caller, all,
                  Sorted({i \in 1..NRows(all) : all.data[i]["is_moving"] \in {One, Zero}}),
                  Sorted({i \in 1..NRows(all) : all.data[i]["is_moving"] = Zero}))

\* lines 174-180: the phase split of the merged frame
TrainSplit(predictors, caller, all) ==
    IF "is_moving" \notin Cols(all) THEN Raise("KeyError", caller)
    ELSE IF \E j \in 1..Len(predictors) : predictors[j] \notin Cols(all)
    THEN Raise("KeyError", caller)
    ELSE TrainFit(predictors, caller, all,
                  Sorted({i \in 1..NRows(all) : all.data[i]["is_moving"] = One}),
                  Sorted({i \in 1..NRows(all) : all.data[i]["is_moving"] = Zero}))

\* line 171: the power indicator of the merged frame
TrainMerged(variant, caller, merged) ==
    IF ~({"voltage", "current"} \subseteq Cols(merged)) THEN Raise("KeyError", caller)
    ELSE TrainSplit(PredictorSpec(variant), caller,
             SetColumn(merged, "power_indicator",
                 transform_power(variant,
                     Arr([i \in 1..NRows(merged) |->
                         RMul(merged.data[i]["voltage"], merged.data[i]["current"])]))))

\* lines 158-168 on the results sm of spec_model_calc for each frame: a
\* frame that raises ends the loop, an empty list makes pd.concat raise
\* ValueError and train exit
TrainTransformed(variant, dfs, sm) ==
    LET bad    == {i \in 1..Len(dfs) : sm[i].error # ""}
        first  == CHOOSE i \in bad : \A j \in bad : i <= j
        caller == Arr([i \in 1..Len(dfs) |->
                      IF bad = {} \/ i <= first THEN sm[i].caller ELSE dfs[i]])
    IN  IF bad # {} THEN Raise(sm[first].error, caller)
        ELSE IF dfs = <<>> THEN Raise("SystemExit", caller)
        ELSE TrainMerged(variant, caller, concat(Arr([i \in 1..Len(dfs) |-> sm[i].df])))

\* The outcomes of train(dfs_list): status ("ok" or the exception raised),
\* the values assigned to self._beta and self._default_usage (None when the
\* statement assigning them is not reached) and the caller's frames as the
\* call leaves them.
train(variant, dfs) ==
    TrainTransformed(variant, dfs,
                     Arr([i \in 1..Len(dfs) |-> spec_model_calc(variant, dfs[i])]))

\* the contributions pairing predictor i with beta[i]
RECURSIVE Contributions_NoOffset(_, _, _, _)
Contributions_NoOffset(row, predictors, b, i) ==
    IF i = 0 THEN b[1]
    ELSE RAdd(Contributions_NoOffset(row, predictors, b, i - 1),
              RMul(row[predictors[i]], b[i]))

\* beta[0] + sum of df[predictor] * beta[i + 1] over the predictors in order
RECURSIVE Contributions(_, _, _, _)
Contributions(row, predictors, b, i) ==
    IF i = 0 THEN b[1]
    ELSE RAdd(Contributions(row, predictors, b, i - 1),
              RMul(row[predictors[i]], b[i + 1]))

\* forecast leaving the stationary rows in power-indicator units
ForecastDerived_RawBaseline(variant, predictors, b, du, sm) ==
    IF sm.error # "" THEN [status |-> sm.error, index |-> <<>>, value |-> <<>>, df |-> sm.caller]
    ELSE IF "is_moving" \notin Cols(sm.df)
    THEN [status |-> "KeyError", index |-> <<>>, value |-> <<>>, df |-> sm.caller]
    ELSE IF b = None
    THEN [status |-> "RuntimeError", index |-> <<>>, value |-> <<>>, df |-> sm.caller]
    ELSE [status |-> "ok",
          index  |-> sm.df.index,
          value  |-> Arr([i \in 1..NRows(sm.df) |->
                        IF sm.df.data[i]["is_moving"] = One
                        THEN retransform_power(variant,
                                 <<Contributions(sm.df.data[i], predictors, b,
                                                 Len(predictors))>>)[1]
                        ELSE IF du = None THEN NaN ELSE du]),
          df     |-> sm.caller]

\* forecast reading self.beta only when a row is moving
ForecastDerived_BetaWhenMoving(variant, predictors, b, du, sm) ==
    IF sm.error # "" THEN [status |-> sm.error, index |-> <<>>, value |-> <<>>, df |-> sm.caller]
    ELSE IF "is_moving" \notin Cols(sm.df)
    THEN [status |-> "KeyError", index |-> <<>>, value |-> <<>>, df |-> sm.caller]
    ELSE IF b = None /\ \E i \in 1..NRows(sm.df) : sm.df.data[i]["is_moving"] = One
    THEN [status |-> "RuntimeError", index |-> <<>>, value |-> <<>>, df |-> sm.caller]
    ELSE [status |-> "ok",
          index  |-> sm.df.index,
          value  |-> retransform_power(variant,
                        Arr([i \in 1..NRows(sm.df) |->
                            IF sm.df.data[i]["is_moving"] = One
                            THEN Contributions(sm.df.data[i], predictors, b, Len(predictors))
                            ELSE IF du = None THEN NaN ELSE du])),
          df     |-> sm.caller]

\* lines 212-225 of forecast on the result sm of spec_model_calc.
\* pd.Series(None, index) is a Series of NaN.
ForecastDerived(variant, predictors, b, du, sm) ==
    IF sm.error # "" THEN [status |-> sm.error, index |-> <<>>, value |-> <<>>, df |-> sm.caller]
    ELSE IF "is_moving" \notin Cols(sm.df)
    THEN [status |-> "KeyError", index |-> <<>>, value |-> <<>>, df |-> sm.caller]
    ELSE IF b = None
    THEN [status |-> "RuntimeError", index |-> <<>>, value |-> <<>>, df |-> sm.caller]
    ELSE [status |-> "ok",
          index  |-> sm.df.index,
          value  |-> retransform_power(variant,
                        Arr([i \in 1..NRows(sm.df) |->
                            IF sm.df.data[i]["is_moving"] = One
                            THEN Contributions(sm.df.data[i], predictors, b, Len(predictors))
                            ELSE IF du = None THEN NaN ELSE du])),
          df     |-> sm.caller]

\* forecast(df) with the fields b = self._beta and du = self._default_usage:
\* status, the returned Series (index labels and values) and the caller's
\* frame as the call leaves it.
forecast(variant, b, du, df) ==
    ForecastDerived(variant, PredictorSpec(variant), b, du, spec_model_calc(variant, df))

(***************************************************************************)
(* The flight files and the program state                                  *)
(***************************************************************************)
RawColumns ==
    <<"time", "voltage", "current", "is_moving",
      "vx_anemometer", "vy_anemometer", "vz_imu", "total_mass">>

Row(time, voltage, current, is_moving, vx, vy, vz, mass) ==
    [k \in {RawColumns[i] : i \in 1..Len(RawColumns)} |->
        Rat(CASE k = "time" -> time
              [] k = "voltage" -> voltage
              [] k = "current" -> current
              [] k = "is_moving" -> is_moving
              [] k = "vx_anemometer" -> vx
              [] k = "vy_anemometer" -> vy
              [] k = "vz_imu" -> vz
              [] OTHER -> mass)]

\* Toolbox.read_csv: a frame with a fresh 0..n-1 index
Frame(columns, rows) ==
    [columns |-> columns,
     index   |-> Arr([i \in 1..Len(rows) |-> i - 1]),
     data    |-> Arr([i \in 1..Len(rows) |->
                    [k \in {columns[j] : j \in 1..Len(columns)} |-> rows[i][k]]])]

\* The flight files <id>.csv under ProjectPaths.flights_data: a flight with
\* both phases, a heavier flight that moves in every row, a flight that never
\* moves, a flight with no rows (numeric columns), a file without the
\* is_moving column, and a flight whose moving row has negative power.
\* voltage * current is a perfect cube and every speed a perfect square, so
\* that the FinalModel features and power indicator are rational.
flights_data ==
    << Frame(RawColumns, << Row(0, 1, 1, 0, 0, 0, 0, 1),
                            Row(1, 8, 1, 1, 1, 0, 1, 1),
                            Row(2, 8, 8, 1, 1, 0, 0, 1),
                            Row(3, 1, 8, 0, 0, 0, 0, 1) >>),
       Frame(RawColumns, << Row(0, 8, 8, 1, 0, 0, 0, 8),
                            Row(1, 1, 8, 1, 1, 0, 1, 8),
                            Row(2, 1, 1, 1, 1, 0, 1, 8) >>),
       Frame(RawColumns, << Row(0, 1, 1, 0, 0, 0, 0, 1),
                            Row(1, 8, 1, 0, 0, 0, 0, 1) >>),
       Frame(RawColumns, << >>),
       Frame(SelectSeq(RawColumns, LAMBDA c : c # "is_moving"),
                         << Row(0, 1, 1, 0, 0, 0, 0, 1),
                            Row(1, 8, 1, 0, 1, 0, 0, 1) >>),
       Frame(RawColumns, << Row(0, 1, 1, 0, 0, 0, 0, 1),
                            Row(1, 1, -1, 1, 1, 0, 0, 1) >>) >>

\* the longest list of flights loaded at once
MaxFlights == 2

\* the longest script: the number of statements a run executes
MaxCalls == 4

\* Toolbox.get_flights_ids returns the unique flight ids that pass the
\* conditions, in the order of the parameter table: the lists of at most
\* MaxFlights ids in increasing order.
get_flights_ids ==
    {Sorted(S) : S \in {T \in SUBSET (1..Len(flights_data)) : Cardinality(T) <= MaxFlights}}

VARIABLES
    variant,             \* the class of the model instance (main.py: model)
    self_beta,           \* self._beta
    self_default_usage,  \* self._default_usage
    dfs_list,            \* the frames the caller holds (main.py: dfs_list)
    outcome,             \* what the last statement returned, raised or printed
    trained_on,          \* history: the flight ids of the last train that returned
    ids_list,            \* the flight ids dfs_list was read from (main.py: train_ids_list)
    again,               \* history: the last statement repeated a forecast that returned
    retrained,           \* history: a train returned on a model trained on other flights
    calls,               \* the number of statements executed so far
    tests_maker,         \* the fields of the TestsMaker instance (main.py: test)
    run,                 \* where execute is, and history: the results before the
                         \* call and the fields as _model_evaluation left them
    param_data,          \* the parameter table (main.py: param_data)
    conditions           \* the conditions mapping (main.py: conditions)

vars == <<variant, self_beta, self_default_usage, dfs_list, outcome, trained_on,
          ids_list, again, retrained, calls, tests_maker, run, param_data,
          conditions>>

Outcome(op, arg, status, index, value) ==
    [op |-> op, arg |-> arg, status |-> status, index |-> index, value |-> value]

\* APredictiveModel.__init__ (through BaseLineModel() or FinalModel())
Init ==
    /\ variant \in Variants
    /\ self_beta = None
    /\ self_default_usage = None
    /\ dfs_list = <<>>
    /\ outcome = Outcome("__init__", 0, "ok", <<>>, <<>>)
    /\ trained_on = None
    /\ ids_list = <<>>
    /\ again = FALSE
    /\ retrained = FALSE
    /\ calls = 0
    /\ tests_maker = None
    /\ run = None
    /\ param_data = None
    /\ conditions = None

\* one more statement of the script; no statement but those of the
\* evaluator touches the evaluator
Step ==
    /\ calls < MaxCalls
    /\ calls' = calls + 1
    /\ again' = FALSE
    /\ UNCHANGED <<tests_maker, run, param_data, conditions>>

\* dfs_list = Toolbox.create_dataframes_list(ids)
create_dataframes_list ==
    \E ids \in get_flights_ids :
        /\ Step
        /\ ids_list' = ids
        /\ dfs_list' = Arr([i \in 1..Len(ids) |-> flights_data[ids[i]]])
        /\ outcome' = Outcome("create_dataframes_list", 0, "ok", <<>>, <<>>)
        /\ UNCHANGED <<retrained, variant, self_beta, self_default_usage, trained_on>>

\* train keeping a default usage that is already set
Train_KeepingDefault ==
    \E r \in train(variant, dfs_list) :
        /\ Step
        /\ self_beta' = IF r.beta = None THEN self_beta ELSE r.beta
        /\ self_default_usage' =
               IF r.default_usage = None \/ self_default_usage # None
               THEN self_default_usage ELSE r.default_usage
        /\ dfs_list' = r.dfs_list
        /\ outcome' = Outcome("train", 0, r.status, <<>>, <<>>)
        /\ trained_on' = IF r.status = "ok" THEN <<ids_list>> ELSE trained_on
        /\ retrained' = (retrained \/ (r.status = "ok" /\ trained_on \notin {None, <<ids_list>>}))
        /\ UNCHANGED <<variant, ids_list>>

\* model.train(dfs_list)
Train ==
    \E r \in train(variant, dfs_list) :
        /\ Step
        /\ self_beta' = IF r.beta = None THEN self_beta ELSE r.beta
        /\ self_default_usage' =
               IF r.default_usage = None THEN self_default_usage ELSE r.default_usage
        /\ dfs_list' = r.dfs_list
        /\ outcome' = Outcome("train", 0, r.status, <<>>, <<>>)
        /\ trained_on' = IF r.status = "ok" THEN <<ids_list>> ELSE trained_on
        /\ retrained' = (retrained \/ (r.status = "ok" /\ trained_on \notin {None, <<ids_list>>}))
        /\ UNCHANGED <<variant, ids_list>>

\* forecast storing the default usage it filled in
Forecast_StoringDefault ==
    \E i \in 1..Len(dfs_list) :
        LET r == forecast(variant, self_beta, self_default_usage, dfs_list[i])
        IN  /\ calls < MaxCalls
            /\ calls' = calls + 1
            /\ again' = (outcome.op = "forecast" /\ outcome.arg = i /\ outcome.status = "ok")
            /\ dfs_list' = [dfs_list EXCEPT ![i] = r.df]
            /\ outcome' = Outcome("forecast", i, r.status, r.index, r.value)
            /\ self_default_usage' = IF self_default_usage = None THEN NaN
                                      ELSE self_default_usage
            /\ UNCHANGED <<retrained, variant, self_beta, trained_on, ids_list, tests_maker, run,
                          param_data, conditions>>

\* model.forecast(dfs_list[i])
Forecast ==
    \E i \in 1..Len(dfs_list) :
        LET r == forecast(variant, self_beta, self_default_usage, dfs_list[i])
        IN  /\ calls < MaxCalls
            /\ calls' = calls + 1
            /\ again' = (outcome.op = "forecast" /\ outcome.arg = i /\ outcome.status = "ok")
            /\ dfs_list' = [dfs_list EXCEPT ![i] = r.df]
            /\ outcome' = Outcome("forecast", i, r.status, r.index, r.value)
            /\ UNCHANGED <<retrained, variant, self_beta, self_default_usage, trained_on, ids_list,
                          tests_maker, run, param_data, conditions>>

\* model.beta
beta ==
    /\ Step
    /\ outcome' = IF self_beta = None
                  THEN Outcome("beta", 0, "RuntimeError", <<>>, <<>>)
                  ELSE Outcome("beta", 0, "ok", <<>>, self_beta)
    /\ UNCHANGED <<retrained, variant, self_beta, self_default_usage, dfs_list, trained_on, ids_list>>

\* default_usage answering an unset field with the NaN placeholder
default_usage_Placeholder ==
    /\ Step
    /\ outcome' = Outcome("default_usage", 0, "ok", <<>>,
                          <<IF self_default_usage = None THEN NaN ELSE self_default_usage>>)
    /\ UNCHANGED <<retrained, variant, self_beta, self_default_usage, dfs_list, trained_on, ids_list>>

\* model.default_usage
default_usage ==
    /\ Step
    /\ outcome' = IF self_default_usage = None
                  THEN Outcome("default_usage", 0, "RuntimeError", <<>>, <<>>)
                  ELSE Outcome("default_usage", 0, "ok", <<>>, <<self_default_usage>>)
    /\ UNCHANGED <<retrained, variant, self_beta, self_default_usage, dfs_list, trained_on, ids_list>>

\* model.print_training_results(): the values printed, in print order (the
\* coefficients paired with 'intercept' and the predictors by zip, then the
\* default usage)
print_training_results ==
    /\ Step
    /\ outcome' =
          IF self_beta = None \/ self_default_usage = None
          THEN Outcome("print_training_results", 0, "RuntimeError", <<>>, <<>>)
          ELSE LET names == <<"intercept">> \o PredictorSpec(variant)
                   n == IF Len(names) < Len(self_beta) THEN Len(names) ELSE Len(self_beta)
               IN  Outcome("print_training_results", 0, "ok", SubSeq(names, 1, n),
                           SubSeq(self_beta, 1, n) \o <<self_default_usage>>)
    /\ UNCHANGED <<retrained, variant, self_beta, self_default_usage, dfs_list, trained_on, ids_list>>

\* model.predictors_list
predictors_list ==
    /\ Step
    /\ outcome' = Outcome("predictors_list", 0, "ok", PredictorSpec(variant), <<>>)
    /\ UNCHANGED <<retrained, variant, self_beta, self_default_usage, dfs_list, trained_on, ids_list>>

Next ==
    \/ create_dataframes_list
    \/ Train
    \/ Forecast
    \/ beta
    \/ default_usage
    \/ predictors_list
    \/ print_training_results

Spec == Init /\ [][Next]_vars
(***************************************************************************)
(* Coefficient recovery: training on synthetic flights                     *)
(***************************************************************************)
\* Synthetic flight files whose power indicator is an exact linear
\* combination of the predictors.  The first three are for FinalModel: every
\* row moves, the seven rows that remain after feature derivation have six
\* linearly independent feature columns, and voltage * current is the cube
\* s^3 of the root s of the combination, so that the power indicator
\* (s^3)^(2/3) is the combination itself.  The last two have constant power
\* in their moving rows, for BaseLineModel.
recovery_data ==
    << Frame(RawColumns, << Row(0, 1, 1, 1, 1, 0, 0, 1),
                            Row(1, 27, 1, 1, 0, 0, 2, 1),
                            Row(2, 0, 1, 1, 0, 0, 0, 1),
                            Row(3, 8, 1, 1, 1, 0, 0, 1),
                            Row(4, 27, 1, 1, 1, 0, 2, 1),
                            Row(5, 27, 1, 1, 1, 0, 1, 8),
                            Row(6, 8, 1, 1, 1, 0, 1, 1),
                            Row(7, 8, 1, 1, 0, 0, 1, 1) >>),
       Frame(RawColumns, << Row(0, 1, 1, 1, 1, 0, 0, 1),
                            Row(1, 343, 1, 1, 2, 0, 0, 8),
                            Row(2, 125, 1, 1, 1, 0, 1, 8),
                            Row(3, 125, 1, 1, 0, 0, 1, 8),
                            Row(4, 27, 1, 1, 0, 0, 2, 1),
                            Row(5, 125, 1, 1, 0, 0, 1, 8),
                            Row(6, 343, 1, 1, 1, 0, 2, 8),
                            Row(7, 343, 1, 1, 1, 0, 2, 8) >>),
       Frame(RawColumns, << Row(0, 1, 1, 1, 1, 0, 0, 8),
                            Row(1, 64, 1, 1, 0, 0, 2, 1),
                            Row(2, 0, 1, 1, 0, 0, 0, 1),
                            Row(3, 64, 1, 1, 0, 0, 2, 1),
                            Row(4, 64, 1, 1, 1, 0, 2, 1),
                            Row(5, 0, 1, 1, 0, 0, 0, 1),
                            Row(6, 8, 1, 1, 1, 0, 0, 1),
                            Row(7, 729, 1, 1, 1, 0, 2, 8) >>),
       Frame(RawColumns, << Row(0, 8, 1, 1, 0, 0, 0, 1),
                            Row(1, 1, 8, 1, 1, 0, 0, 1),
                            Row(2, 8, 1, 1, 1, 0, 1, 1) >>),
       Frame(RawColumns, << Row(0, 1, 1, 1, 0, 0, 0, 8),
                            Row(1, 1, 1, 0, 0, 0, 0, 8),
                            Row(2, 1, 1, 1, 1, 0, 0, 8) >>) >>

\* the script of the recovery runs: a model is constructed and one synthetic
\* flight is read
InitRecovery ==
    /\ variant \in Variants
    /\ self_beta = None
    /\ self_default_usage = None
    /\ \E k \in 1..Len(recovery_data) : dfs_list = <<recovery_data[k]>>
    /\ outcome = Outcome("create_dataframes_list", 0, "ok", <<>>, <<>>)
    /\ trained_on = None
    /\ ids_list = <<>>
    /\ again = FALSE
    /\ retrained = FALSE
    /\ calls = 1
    /\ tests_maker = None
    /\ run = None
    /\ param_data = None
    /\ conditions = None

\* ... and is trained, read and asked to forecast
NextRecovery ==
    \/ Train
    \/ Forecast
    \/ beta
    \/ default_usage
    \/ print_training_results

SpecRecovery == InitRecovery /\ [][NextRecovery]_vars

(***************************************************************************)
(* TestsMaker: the evaluation of a model on test flights.  The metrics are  *)
(* operators on tuples of values.  A field of the evaluator is a record of *)
(* index and values: the labels of a Series, the positions 0..n-1 of a     *)
(* one-dimensional numpy array, no index and one value for a scalar or a   *)
(* 0-dimensional array.                                                    *)
(***************************************************************************)
RAbs(x) == IF IsNaN(x) THEN NaN ELSE <<Abs(x[1]), x[2]>>

\* numpy's x / 0 for a float x > 0 (a warning, no exception); it is stored
\* and printed, never computed with
Inf == <<1, 0>>

\* np.mean of an array: NaN over no element
np_mean(vals) == RDiv(RSum(vals), Rat(Len(vals)))

\* Series.sum(): NaN entries are skipped
Series_sum(vals) == RSum(SelectSeq(vals, LAMBDA x : ~IsNaN(x)))

\* np.cumsum of an array
cumsum(vals) == Arr([i \in 1..Len(vals) |-> RSum(SubSeq(vals, 1, i))])

\* Series.cumsum(): NaN entries are skipped and stay NaN
Series_cumsum(s) ==
    [index |-> s.index,
     value |-> Arr([i \in 1..Len(s.value) |->
                  IF IsNaN(s.value[i]) THEN NaN
                  ELSE Series_sum(SubSeq(s.value, 1, i))])]

\* the position of a label in an index, 0 when it is absent
Loc(index, label) ==
    IF \E i \in 1..Len(index) : index[i] = label
    THEN CHOOSE i \in 1..Len(index) : index[i] = label
    ELSE 0

\* a product of two Series taken position by position
Series_mul_Positional(left, right) ==
    [index |-> left.index,
     value |-> Arr([i \in 1..Len(left.index) |->
                  IF i > Len(right.index) THEN NaN
                  ELSE RMul(left.value[i], right.value[i])])]

\* left * right of two Series: position by position when the indexes are
\* equal, otherwise aligned on the sorted union of the labels, NaN where a
\* label is missing on one side
Series_mul(left, right) ==
    IF left.index = right.index
    THEN [index |-> left.index,
          value |-> Arr([i \in 1..Len(left.index) |->
                       RMul(left.value[i], right.value[i])])]
    ELSE LET labels == Sorted({left.index[i] : i \in 1..Len(left.index)}
                              \cup {right.index[i] : i \in 1..Len(right.index)})
         IN  [index |-> labels,
              value |-> Arr([j \in 1..Len(labels) |->
                           IF Loc(left.index, labels[j]) = 0
                              \/ Loc(right.index, labels[j]) = 0
                           THEN NaN
                           ELSE RMul(left.value[Loc(left.index, labels[j])],
                                     right.value[Loc(right.index, labels[j])])])]

\* np.abs(true - pred) of an array and the values of a Series of its length
AbsError(true, pred) ==
    Arr([i \in 1..Len(true) |-> RAbs(RSub(true[i], pred[i]))])

\* np.mean(np.abs(true - pred)), a Series mean
mae(true, pred) == mean(AbsError(true, pred))

\* a percentage error in which the rows with a zero true value count as
\* rows without error
mape_AllRows(true, pred) ==
    RMul(mean(Arr([i \in 1..Len(true) |->
                     IF true[i] = Zero THEN Zero
                     ELSE RAbs(RDiv(RSub(true[i], pred[i]), true[i]))])),
         Rat(100))

\* mask = true != 0; np.mean(np.abs((true[mask] - pred[mask]) / true[mask])) * 100
mape(true, pred) ==
    LET mask == Sorted({i \in 1..Len(true) : true[i] # Zero})
    IN  RMul(mean(Arr([j \in 1..Len(mask) |->
                         RAbs(RDiv(RSub(true[mask[j]], pred[mask[j]]), true[mask[j]]))])),
             Rat(100))

\* np.sum((true - pred) ** 2), a Series sum
ss_res(true, pred) ==
    Series_sum(Arr([i \in 1..Len(true) |-> Sq(RSub(true[i], pred[i]))]))

\* np.sum((true - np.mean(true)) ** 2), an array sum
ss_tot(true) ==
    RSum(Arr([i \in 1..Len(true) |-> Sq(RSub(true[i], np_mean(true)))]))

\* R-squared dividing whatever the total sum of squares is: numpy gives
\* 1 - x / 0 = -inf for x > 0
r2_Dividing(true, pred) ==
    IF ss_tot(true) = Zero /\ ss_res(true, pred) \notin {Zero, NaN}
    THEN <<-1, 0>>
    ELSE RSub(One, RDiv(ss_res(true, pred), ss_tot(true)))

\* 1 - ss_res / ss_tot if ss_tot != 0 else np.nan
r2(true, pred) ==
    IF ss_tot(true) # Zero
    THEN RSub(One, RDiv(ss_res(true, pred), ss_tot(true)))
    ELSE NaN

\* the absolute error of the first cumulative values
ae_FirstRow(energy_cum, energy_pred_cum) ==
    RAbs(RSub(energy_cum[1], energy_pred_cum.value[Loc(energy_pred_cum.index, 0)]))

\* np.abs(energy_cum[n - 1] - energy_pred_cum[n - 1]) with n the length of
\* energy_cum: the last element of the array and the Series entry labelled n - 1
ae(energy_cum, energy_pred_cum) ==
    RAbs(RSub(energy_cum[Len(energy_cum)],
              energy_pred_cum.value[Loc(energy_pred_cum.index, Len(energy_cum) - 1)]))

\* ae / energy_cum[n - 1] * 100
ape(energy_cum, energy_pred_cum) ==
    IF energy_cum[Len(energy_cum)] = Zero
    THEN IF ae(energy_cum, energy_pred_cum) \in {Zero, NaN} THEN NaN ELSE Inf
    ELSE RMul(RDiv(ae(energy_cum, energy_pred_cum), energy_cum[Len(energy_cum)]),
              Rat(100))

\* battery.joules2SoC: nominal_capacity * voltage * 3.6 J (4500 mAh, 22.2 V)
\* times _get_eff_from_temp(25) = 1 (25 degrees is a knot of the three
\* capacity splines, each 100 % there) times the wear coefficient
effective_capacity(wear_capacity_coefficient) ==
    RMul(Norm(4500 * 222 * 36, 100), wear_capacity_coefficient)

\* joules2SoC with the wear coefficient left at its default 0.8
joules2SoC_DefaultWear(initial_percentage, usage, wear_capacity_coefficient) ==
    [index |-> usage.index,
     value |-> Arr([i \in 1..Len(usage.value) |->
                  RDiv(RSub(RMul(effective_capacity(Norm(4, 5)), initial_percentage),
                            usage.value[i]),
                       effective_capacity(Norm(4, 5)))])]

\* (effective_capacity * initial_percentage - usage) / effective_capacity
joules2SoC(initial_percentage, usage, wear_capacity_coefficient) ==
    [index |-> usage.index,
     value |-> Arr([i \in 1..Len(usage.value) |->
                  RDiv(RSub(RMul(effective_capacity(wear_capacity_coefficient),
                                 initial_percentage),
                            usage.value[i]),
                       effective_capacity(wear_capacity_coefficient))])]

\* a one-dimensional numpy array
Array(vals) == [index |-> Arr([i \in 1..Len(vals) |-> i - 1]), value |-> vals]

\* a number held by a field
Scalar(x) == [index |-> <<>>, value |-> <<x>>]

\* np.ndarray([]): a 0-dimensional array, its one element uninitialised
\* (the evaluator never reads it)
ndarray == Scalar(None)

\* the fields TestsMaker.__init__ and _reset assign (all but tests, model
\* and results)
ResetFields ==
    [time |-> ndarray, batt_state |-> Scalar(One),
     power |-> ndarray, energy |-> ndarray, energy_cum |-> ndarray,
     power_pred |-> ndarray, energy_pred |-> ndarray, energy_pred_cum |-> ndarray]

\* lines 228-233 of _execute_test: delta_time, dropna, reset_index
Prepare(df) ==
    reset_index(dropna(SetColumn(df, "delta_time", diff(Series(df, "time")))))

\* lines 236-247 of _execute_test: the fields computed from the prepared
\* frame df and the forecast f the model returned for it
Measure(df, f) ==
    [time            |-> Array(Series(df, "time")),
     batt_state      |-> Scalar(One),
     power           |-> Array(Arr([i \in 1..NRows(df) |->
                            RMul(df.data[i]["voltage"], df.data[i]["current"])])),
     energy          |-> Array(Arr([i \in 1..NRows(df) |->
                            RMul(df.data[i]["delta_time"],
                                 RMul(df.data[i]["voltage"], df.data[i]["current"]))])),
     energy_cum      |-> Array(cumsum(Arr([i \in 1..NRows(df) |->
                            RMul(df.data[i]["delta_time"],
                                 RMul(df.data[i]["voltage"], df.data[i]["current"]))]))),
     power_pred      |-> [index |-> f.index, value |-> f.value],
     energy_pred     |-> Series_mul([index |-> f.index, value |-> f.value],
                                    [index |-> df.index,
                                     value |-> Series(df, "delta_time")]),
     energy_pred_cum |-> Series_cumsum(
                            Series_mul([index |-> f.index, value |-> f.value],
                                       [index |-> df.index,
                                        value |-> Series(df, "delta_time")]))]

\* _model_evaluation on the fields m: the exception raised, the score
\* appended to self.results, self.batt_state and the values printed, in
\* print order.  An array and a Series of another length cannot be
\* subtracted (line 122); with no row there is no last element (line 143).
model_evaluation(m) ==
    IF Len(m.energy.value) # Len(m.energy_pred.value)
    THEN [status |-> "ValueError", results |-> <<>>, batt_state |-> m.batt_state,
          printed |-> <<>>]
    ELSE IF Len(m.energy_cum.value) = 0
    THEN [status |-> "IndexError", results |-> <<>>, batt_state |-> m.batt_state,
          printed |-> <<>>]
    ELSE IF Loc(m.energy_pred_cum.index, Len(m.energy_cum.value) - 1) = 0
    THEN [status |-> "KeyError", results |-> <<>>, batt_state |-> m.batt_state,
          printed |-> <<>>]
    ELSE [status     |-> "ok",
          results    |-> <<ape(m.energy_cum.value, m.energy_pred_cum)>>,
          batt_state |-> joules2SoC(One, m.energy_pred_cum, One),
          printed    |->
              << mae(m.energy.value, m.energy_pred.value),
                 mape(m.energy.value, m.energy_pred.value),
                 mae(m.energy_cum.value, m.energy_pred_cum.value),
                 mape(m.energy_cum.value, m.energy_pred_cum.value),
                 r2(m.energy.value, m.energy_pred.value),
                 r2(m.energy_cum.value, m.energy_pred_cum.value),
                 ae(m.energy_cum.value, m.energy_pred_cum),
                 ape(m.energy_cum.value, m.energy_pred_cum),
                 RMul(joules2SoC(One, m.energy_pred_cum, One).value[Len(m.energy_cum.value)],
                      Rat(100)) >>]

\* self.time = ..., self.power = ...: the fields taken from m
Assign(self, m) ==
    [self EXCEPT !.time = m.time, !.batt_state = m.batt_state,
                 !.power = m.power, !.energy = m.energy,
                 !.energy_cum = m.energy_cum, !.power_pred = m.power_pred,
                 !.energy_pred = m.energy_pred,
                 !.energy_pred_cum = m.energy_pred_cum]

\* TestsMaker._reset
reset(self) == Assign(self, ResetFields)

\* _execute_test returning without the reset
ExecuteTestEvaluated_NoReset(self, m, e) ==
    IF e.status # "ok"
    THEN [status |-> e.status, printed |-> <<>>, evaluated |-> TRUE, seen |-> m,
          self |-> Assign(self, m)]
    ELSE [status |-> "ok", printed |-> e.printed, evaluated |-> TRUE,
          seen |-> [m EXCEPT !.batt_state = e.batt_state],
          self |-> [Assign(self, m) EXCEPT !.results = self.results \o e.results,
                                           !.batt_state = e.batt_state]]

\* lines 236-257 of _execute_test once the forecast returned: the fields m
\* are assigned, _model_evaluation (outcome e) appends the score and sets
\* batt_state, _draw_plots reads the fields, _reset ends the test.  An
\* exception leaves the fields as they are.
ExecuteTestEvaluated(self, m, e) ==
    IF e.status # "ok"
    THEN [status |-> e.status, printed |-> <<>>, evaluated |-> TRUE, seen |-> m,
          self |-> Assign(self, m)]
    ELSE [status |-> "ok", printed |-> e.printed, evaluated |-> TRUE,
          seen |-> [m EXCEPT !.batt_state = e.batt_state],
          self |-> reset([Assign(self, m) EXCEPT
                             !.results = self.results \o e.results,
                             !.batt_state = e.batt_state])]

\* _execute_test after the frame df was prepared and forecast (f)
ExecuteTestForecast(self, df, f) ==
    IF f.status # "ok"
    THEN [status |-> f.status, printed |-> <<>>, evaluated |-> FALSE,
          seen |-> ResetFields, self |-> self]
    ELSE ExecuteTestEvaluated(self, Measure(df, f), model_evaluation(Measure(df, f)))

\* The flight files the evaluator reads: a flight with both phases and a
\* last row without power, a flight that moves in every row with constant
\* power after its first row, the flight with no rows, the file without the
\* is_moving column, a flight that never moves and draws no power in its
\* first rows, a flight that never moves and never draws power, and a
\* flight that never moves whose first two records have the same time.
\* Every file has the time, voltage and current columns.
\* A FinalModel trained on the first two forecasts rational powers for
\* these flights: its stationary power indicators 4, 0 and the two zero
\* rows average to 1.
evaluation_data ==
    << Frame(RawColumns, << Row(0, 1, 1, 0, 0, 0, 0, 1),
                            Row(1, 8, 1, 1, 1, 0, 0, 1),
                            Row(2, 27, 1, 1, 1, 0, 1, 1),
                            Row(3, 8, 1, 0, 0, 0, 0, 1),
                            Row(4, 0, 1, 0, 0, 0, 0, 1) >>),
       Frame(RawColumns, << Row(0, 8, 8, 1, 0, 0, 0, 8),
                            Row(1, 1, 8, 1, 1, 0, 1, 8),
                            Row(2, 8, 1, 1, 1, 0, 1, 8) >>),
       flights_data[4],
       flights_data[5],
       Frame(RawColumns, << Row(0, 1, 1, 0, 0, 0, 0, 1),
                            Row(1, 0, 1, 0, 0, 0, 0, 1),
                            Row(2, 0, 8, 0, 0, 0, 0, 1),
                            Row(3, 8, 1, 0, 0, 0, 0, 1) >>),
       Frame(RawColumns, << Row(0, 0, 1, 0, 0, 0, 0, 1),
                            Row(1, 0, 1, 0, 0, 0, 0, 1),
                            Row(2, 0, 8, 0, 0, 0, 0, 1) >>),
       Frame(RawColumns, << Row(0, 1, 1, 0, 0, 0, 0, 1),
                            Row(0, 8, 1, 0, 0, 0, 0, 1),
                            Row(1, 8, 1, 0, 0, 0, 0, 1),
                            Row(2, 1, 1, 0, 0, 0, 0, 1) >>) >>

\* the flights the evaluated model is trained on
training_ids == <<1, 2>>

\* the longest list of test flights
MaxTests == 2

\* the most calls of execute on one evaluator
MaxRuns == 2

\* main.py test_ids: the lists of at most MaxTests flight ids
test_ids ==
    UNION {{Arr(t) : t \in [1..n -> 1..Len(evaluation_data)]} : n \in 0..MaxTests}

\* _execute_test(test) on the evaluator self with the model's fields b, du
ExecuteTest(self, v, b, du, test) ==
    ExecuteTestForecast(self, Prepare(evaluation_data[test]),
                        forecast(v, b, du, Prepare(evaluation_data[test])))

\* TestsMaker.__init__(model, test_ids)
TestsMaker(tests) ==
    [tests |-> tests, results |-> <<>>,
     time |-> ndarray, batt_state |-> Scalar(One),
     power |-> ndarray, energy |-> ndarray, energy_cum |-> ndarray,
     power_pred |-> ndarray, energy_pred |-> ndarray, energy_pred_cum |-> ndarray]

\* main.py lines 32-45: a model was constructed and, unless the run skips
\* it, trained on the training flights; TestsMaker(model, test_ids) was
\* constructed
InitEvaluator ==
    /\ variant \in Variants
    /\ \E trained \in BOOLEAN :
       \E r \in train(variant, Arr([i \in 1..Len(training_ids) |->
                                      evaluation_data[training_ids[i]]])) :
           /\ trained => r.status = "ok"
           /\ self_beta = IF trained THEN r.beta ELSE None
           /\ self_default_usage = IF trained THEN r.default_usage ELSE None
           /\ dfs_list = IF trained THEN r.dfs_list
                         ELSE Arr([i \in 1..Len(training_ids) |->
                                     evaluation_data[training_ids[i]]])
           /\ trained_on = IF trained THEN <<training_ids>> ELSE None
    /\ ids_list = training_ids
    /\ outcome = Outcome("TestsMaker", 0, "ok", <<>>, <<>>)
    /\ again = FALSE
    /\ retrained = FALSE
    /\ calls = 0
    /\ \E tests \in test_ids : tests_maker = TestsMaker(tests)
    /\ run = [pc |-> "constructed", k |-> 0, runs |-> 0, before |-> <<>>,
              seen |-> ResetFields]
    /\ param_data = None
    /\ conditions = None

\* test.execute(): the call enters the loop over self.tests
execute ==
    /\ run.pc \in {"constructed", "returned"}
    /\ run.runs < MaxRuns
    /\ run' = [run EXCEPT !.pc = "execute", !.k = 0, !.runs = @ + 1,
                          !.before = tests_maker.results]
    /\ outcome' = Outcome("execute", 0, "ok", <<>>, <<>>)
    /\ UNCHANGED <<tests_maker, variant, self_beta, self_default_usage, dfs_list,
                   trained_on, ids_list, again, retrained, calls,
                   param_data, conditions>>

\* the loop of execute taking the tests from the last to the first
execute_test_Backwards ==
    /\ run.pc = "execute"
    /\ run.k < Len(tests_maker.tests)
    /\ LET test == tests_maker.tests[Len(tests_maker.tests) - run.k]
           r == ExecuteTest(tests_maker, variant, self_beta, self_default_usage, test)
       IN  /\ tests_maker' = r.self
           /\ run' = [run EXCEPT !.pc = IF r.status = "ok" THEN "execute" ELSE "raised",
                                 !.k = IF r.status = "ok" THEN @ + 1 ELSE @,
                                 !.seen = IF r.evaluated THEN r.seen ELSE @]
           /\ outcome' = Outcome("_execute_test", test, r.status, <<>>, r.printed)
    /\ UNCHANGED <<variant, self_beta, self_default_usage, dfs_list,
                   trained_on, ids_list, again, retrained, calls,
                   param_data, conditions>>

\* one iteration of the loop of execute: self._execute_test(test) for the
\* next test of self.tests; an exception ends execute
execute_test ==
    /\ run.pc = "execute"
    /\ run.k < Len(tests_maker.tests)
    /\ LET test == tests_maker.tests[run.k + 1]
           r == ExecuteTest(tests_maker, variant, self_beta, self_default_usage, test)
       IN  /\ tests_maker' = r.self
           /\ run' = [run EXCEPT !.pc = IF r.status = "ok" THEN "execute" ELSE "raised",
                                 !.k = IF r.status = "ok" THEN @ + 1 ELSE @,
                                 !.seen = IF r.evaluated THEN r.seen ELSE @]
           /\ outcome' = Outcome("_execute_test", test, r.status, <<>>, r.printed)
    /\ UNCHANGED <<variant, self_beta, self_default_usage, dfs_list,
                   trained_on, ids_list, again, retrained, calls,
                   param_data, conditions>>

\* the end of execute: the loop is over, self.results is printed
execute_return ==
    /\ run.pc = "execute"
    /\ run.k = Len(tests_maker.tests)
    /\ run' = [run EXCEPT !.pc = "returned"]
    /\ outcome' = Outcome("execute", 0, "returned", <<>>, tests_maker.results)
    /\ UNCHANGED <<tests_maker, variant, self_beta, self_default_usage, dfs_list,
                   trained_on, ids_list, again, retrained, calls,
                   param_data, conditions>>

NextEvaluator ==
    \/ execute
    \/ execute_test
    \/ execute_return

SpecEvaluator == InitEvaluator /\ [][NextEvaluator]_vars

(***************************************************************************)
(* Toolbox.get_flights_ids: the selection of flights by column conditions  *)
(***************************************************************************)
\* The parameter tables (ProjectPaths.parameters): one row per recorded
\* segment, flight 2 with two rows; the values are whole numbers.  A table
\* has at least one row.
parameters ==
    << Frame(<<"flight", "payload", "speed">>,
             << [flight |-> 1, payload |-> 0, speed |-> 4],
                [flight |-> 2, payload |-> 250, speed |-> 4],
                [flight |-> 2, payload |-> 250, speed |-> 6],
                [flight |-> 3, payload |-> -1, speed |-> 6] >>),
       Frame(<<"flight", "payload", "speed">>,
             << [flight |-> 3, payload |-> 500, speed |-> 4] >>) >>

\* the column names a condition can be given for; the tables have no
\* altitude column
ConditionColumns == {"payload", "speed", "altitude"}

\* the callables of the conditions: lambda x: x >= 0, x > 0, x < 0
Callables == {"x >= 0", "x > 0", "x < 0"}

\* condition(x)
Call(condition, x) ==
    CASE condition = "x >= 0" -> x >= 0
      [] condition = "x > 0" -> x > 0
      [] OTHER -> x < 0

\* the most items of a conditions mapping
MaxConditions == 2

\* the conditions mappings: at most MaxConditions items in insertion order,
\* no column twice
ConditionsMappings ==
    UNION {{Arr(c) : c \in {d \in [1..n -> [column : ConditionColumns, condition : Callables]] :
                              \A i, j \in 1..n : i # j => d[i].column # d[j].column}}
           : n \in 0..MaxConditions}

\* Series.unique(): the values in order of first appearance
RECURSIVE unique(_)
unique(vals) ==
    IF vals = <<>> THEN <<>>
    ELSE LET head == unique(SubSeq(vals, 1, Len(vals) - 1))
         IN  IF \E i \in 1..Len(head) : head[i] = vals[Len(vals)]
             THEN head
             ELSE Append(head, vals[Len(vals)])

\* filtered_data[filtered_data[column].apply(condition)]
Filtered(filtered_data, item) ==
    Take(filtered_data,
         Sorted({r \in 1..NRows(filtered_data) :
                    Call(item.condition, filtered_data.data[r][item.column])}))

\* the loop over conditions.items() from item i on: ValueError for a column
\* that is not in the table, the filter, break on an empty table
RECURSIVE ConditionsLoop(_, _, _)
ConditionsLoop(filtered_data, items, i) ==
    IF i > Len(items) THEN [error |-> "", filtered_data |-> filtered_data]
    ELSE IF items[i].column \notin Cols(filtered_data)
    THEN [error |-> "ValueError", filtered_data |-> filtered_data]
    ELSE IF NRows(Filtered(filtered_data, items[i])) = 0
    THEN [error |-> "", filtered_data |-> Filtered(filtered_data, items[i])]
    ELSE ConditionsLoop(Filtered(filtered_data, items[i]), items, i + 1)

\* Toolbox.get_flights_ids(data, conditions): the exception raised and the
\* list returned
FlightsIds(data, items) ==
    LET r == ConditionsLoop(data, items, 1)
    IN  IF r.error # "" THEN [status |-> r.error, value |-> <<>>]
        ELSE IF "flight" \notin Cols(r.filtered_data)
        THEN [status |-> "KeyError", value |-> <<>>]
        ELSE [status |-> "ok", value |-> unique(Series(r.filtered_data, "flight"))]

\* main.py lines 10-28: the model is constructed, the conditions are
\* configured and the parameter table is read
InitSelection ==
    /\ variant \in Variants
    /\ self_beta = None
    /\ self_default_usage = None
    /\ dfs_list = <<>>
    /\ outcome = Outcome("read_csv", 0, "ok", <<>>, <<>>)
    /\ trained_on = None
    /\ ids_list = <<>>
    /\ again = FALSE
    /\ retrained = FALSE
    /\ calls = 0
    /\ tests_maker = None
    /\ run = None
    /\ \E t \in 1..Len(parameters) : param_data = parameters[t]
    /\ conditions \in ConditionsMappings

\* train_ids_list = Toolbox.get_flights_ids(param_data, conditions), once
SelectFlights ==
    /\ outcome.op = "read_csv"
    /\ calls < MaxCalls
    /\ calls' = calls + 1
    /\ outcome' = Outcome("get_flights_ids", 0, FlightsIds(param_data, conditions).status,
                          <<>>, FlightsIds(param_data, conditions).value)
    /\ ids_list' = IF FlightsIds(param_data, conditions).status = "ok"
                   THEN FlightsIds(param_data, conditions).value
                   ELSE ids_list
    /\ UNCHANGED <<variant, self_beta, self_default_usage, dfs_list, trained_on,
                   again, retrained, tests_maker, run, param_data, conditions>>

NextSelection == SelectFlights

SpecSelection == InitSelection /\ [][NextSelection]_vars

(***************************************************************************)
(* Properties of the model's interface                                     *)
(***************************************************************************)
\* the frame a forecast statement was given has every column the variant reads
WellFormed(df) ==
    {RawColumns[i] : i \in 1..Len(RawColumns)} \subseteq Cols(df)

\* the last statement was model.forecast and it returned a Series
Forecasted == outcome.op = "forecast" /\ outcome.status = "ok"

\* the last statement raised the not-trained error and produced nothing
NotTrainedError ==
    outcome.status = "RuntimeError" /\ outcome.index = <<>> /\ outcome.value = <<>>

\* C1: on a model on which train has never completed, forecast on a frame
\* with the required columns (with moving rows or without) raises the
\* not-trained error and returns no Series, for both model classes.
C1_ForecastUntrained ==
    (outcome.op = "forecast" /\ trained_on = None /\ WellFormed(dfs_list[outcome.arg]))
        => NotTrainedError

\* an untrained FinalModel was asked to forecast the flight that never moves
C1_Witness ==
    /\ outcome.op = "forecast" /\ trained_on = None
    /\ variant = "FinalModel"
    /\ ids_list[outcome.arg] = 3
    /\ WellFormed(dfs_list[outcome.arg])
    /\ NotTrainedError

\* C2: on a model on which train has never completed, reading beta, reading
\* default_usage and print_training_results each raise the not-trained
\* error; none returns a placeholder or prints a partial report.
C2_AccessorsUntrained ==
    (outcome.op \in {"beta", "default_usage", "print_training_results"} /\ trained_on = None)
        => NotTrainedError

\* default_usage was read after the only train so far had failed
C2_Witness ==
    /\ outcome.op = "default_usage" /\ trained_on = None
    /\ calls = 3
    /\ NotTrainedError

\* the flights read into ids have rows, and every row is stationary
AllStationary(ids) ==
    /\ \A i \in 1..Len(ids) :
          /\ "is_moving" \in Cols(flights_data[ids[i]])
          /\ \A r \in 1..NRows(flights_data[ids[i]]) :
                flights_data[ids[i]].data[r]["is_moving"] = Zero
    /\ \E i \in 1..Len(ids) : NRows(flights_data[ids[i]]) > 0

\* C3: training on a non-empty dataset in which every row is stationary
\* fails; it never completes with stored coefficients.
C3_AllStationaryTrainFails ==
    (outcome.op = "train" /\ AllStationary(ids_list)) => outcome.status # "ok"

\* the feature-derived frames of dfs together have no row
RECURSIVE DerivedRows(_, _)
DerivedRows(v, dfs) ==
    IF dfs = <<>> THEN 0
    ELSE NRows(spec_model_calc(v, dfs[1]).df) + DerivedRows(v, Tail(dfs))

\* C4: train fails whenever the concatenation of the feature-derived frames
\* has zero rows: for an empty list and for a non-empty list of frames with
\* no rows.
C4_ZeroRowsTrainFails ==
    (/\ outcome.op = "train"
     /\ \A i \in 1..Len(dfs_list) : spec_model_calc(variant, dfs_list[i]).error = ""
     /\ DerivedRows(variant, dfs_list) = 0)
        => outcome.status # "ok"

\* a step of the script that is a call of model.train
TrainStep == calls' # calls /\ outcome'.op = "train"

\* C5: a train call that fails leaves self._beta and self._default_usage
\* exactly as they were before the call: unset on a fresh model, the earlier
\* values on a trained one.
C5_FailedTrainKeepsFields ==
    [][(TrainStep /\ outcome'.status # "ok")
          => (self_beta' = self_beta /\ self_default_usage' = self_default_usage)]_vars

\* a trained model has just failed to train again and still has its values
C5_Witness ==
    /\ outcome.op = "train" /\ outcome.status = "KeyError"
    /\ trained_on # None
    /\ self_beta # None /\ self_default_usage # None

\* a step of the script that is one of the read operations of the model
ReadStep ==
    /\ calls' # calls
    /\ outcome'.op \in {"forecast", "print_training_results", "beta", "default_usage",
                        "predictors_list"}

\* C6: forecast, print_training_results and the accessors never change
\* self._beta or self._default_usage, whether they return or raise.
C6_ReadOperationsKeepFields ==
    [][ReadStep => (self_beta' = self_beta /\ self_default_usage' = self_default_usage)]_vars

\* a trained FinalModel has just returned a forecast for the mixed flight
C6_Witness ==
    /\ Forecasted /\ trained_on # None
    /\ variant = "FinalModel" /\ ids_list[outcome.arg] = 1
    /\ self_beta # None /\ self_default_usage # None

\* C7: forecasting the same frame twice in a row on a trained model returns
\* the same Series (labels and values) both times, although FinalModel adds
\* its derived columns to the caller's frame during the first call.
C7_ForecastRepeatable ==
    [][(/\ calls' # calls
        /\ Forecasted
        /\ outcome'.op = "forecast" /\ outcome'.arg = outcome.arg)
          => (/\ outcome'.status = "ok"
              /\ outcome'.index = outcome.index
              /\ outcome'.value = outcome.value)]_vars

\* the second of two forecasts of the mixed flight by a trained FinalModel,
\* on the frame that already has the derived columns
C7_Witness ==
    /\ again /\ Forecasted
    /\ variant = "FinalModel" /\ ids_list[outcome.arg] = 1
    /\ "velocity_z_factor" \in Cols(dfs_list[outcome.arg])
    /\ Len(outcome.value) > 1

\* the Series v labelled idx has one value per row of the derived frame f,
\* and at every stationary row the inverse transform of the default usage du
BaselineAtStationary(f, idx, v, du) ==
    /\ Len(v) = NRows(f)
    /\ idx = f.index
    /\ \A i \in 1..NRows(f) :
          f.data[i]["is_moving"] = Zero => v[i] = retransform_power(variant, <<du>>)[1]

\* C8: on a trained model forecast returns exactly one value per row of the
\* feature-derived frame, and for every row whose is_moving is false that
\* value is the inverse power transform of the stored default usage.
C8_StationaryRowsGetBaseline ==
    Forecasted => BaselineAtStationary(spec_model_calc(variant, dfs_list[outcome.arg]).df,
                                       outcome.index, outcome.value, self_default_usage)

\* a FinalModel trained on the mixed flight has forecast it: the derived
\* frame has stationary and moving rows and the default usage is a number
C8_Witness ==
    /\ Forecasted
    /\ variant = "FinalModel" /\ ids_list[outcome.arg] = 1 /\ trained_on = <<(<<1>>)>>
    /\ ~IsNaN(self_default_usage)
    /\ outcome.value[Len(outcome.value)] = retransform_power(variant, <<self_default_usage>>)[1]

\* b[0] + the sum over the predictors, in predictors_list order, of
\* b[j] * row[predictor j]  (b indexed from 0 as in the code)
Linear(row, b) ==
    RSum(<<b[1]>> \o Arr([j \in 1..Len(PredictorSpec(variant)) |->
                             RMul(b[j + 1], row[PredictorSpec(variant)[j]])]))

\* at every moving row of the derived frame f the Series v holds the inverse
\* transform of the linear combination
LinearAtMoving(f, v, b) ==
    \A i \in 1..NRows(f) :
        f.data[i]["is_moving"] = One
            => v[i] = retransform_power(variant, <<Linear(f.data[i], b)>>)[1]

\* the residual of the fit b on the moving rows of the merged frame all is
\* orthogonal to the intercept column and to every predictor column, taken
\* in predictors_list order: the normal equations of the least-squares fit
NormalEquations(all, y, b) ==
    \/ \E j \in 1..Len(b) : IsNaN(b[j])
    \/ \A j \in 0..Len(PredictorSpec(variant)) :
          RSum(Arr([r \in 1..NRows(all) |->
                  IF all.data[r]["is_moving"] # One THEN Zero
                  ELSE RMul(IF j = 0 THEN One ELSE all.data[r][PredictorSpec(variant)[j]],
                            RSub(y[r], Linear(all.data[r], b)))])) = Zero

\* the merged feature-derived frame of dfs and its power indicator
MergedOf(dfs) ==
    concat(Arr([i \in 1..Len(dfs) |-> spec_model_calc(variant, dfs[i]).df]))

IndicatorOf(all) ==
    transform_power(variant,
        Arr([i \in 1..NRows(all) |-> RMul(all.data[i]["voltage"], all.data[i]["current"])]))

FitsTraining(all, b) == NormalEquations(all, IndicatorOf(all), b)

\* C9: for every moving row forecast returns the inverse power transform of
\* beta[0] + sum of beta[i + 1] * predictor i, pairing the coefficients with
\* the predictors in the order train used for the design-matrix columns (the
\* stored coefficients solve the normal equations in that pairing); the
\* default usage does not enter.
C9_MovingRowsGetLinearFit ==
    /\ Forecasted => LinearAtMoving(spec_model_calc(variant, dfs_list[outcome.arg]).df,
                                    outcome.value, self_beta)
    /\ (outcome.op = "train" /\ outcome.status = "ok")
            => FitsTraining(MergedOf(dfs_list), self_beta)

\* a FinalModel trained on both flights with moving rows has forecast the
\* heavier one, and its coefficients are not all zero
C9_Witness ==
    /\ Forecasted
    /\ variant = "FinalModel" /\ trained_on = <<(<<1, 2>>)>> /\ ids_list[outcome.arg] = 2
    /\ \E j \in 2..Len(self_beta) : self_beta[j][1] # 0
    /\ \E i \in 1..Len(outcome.value) :
          dfs_list[outcome.arg].data[i + 1]["is_moving"] = One /\ ~IsNaN(outcome.value[i])

\* the flight file df with one more stationary row at the end
AppendStationary(df) ==
    Frame(df.columns,
          df.data \o <<Row(NRows(df), 8, 1, 0, 0, 0, 0,
                           IF NRows(df) = 0 THEN 1 ELSE df.data[NRows(df)]["total_mass"][1])>>)

\* the training sets obtained from the flights ids by appending stationary
\* rows: a flight that never moves after the others, or one more stationary
\* row at the end of the last flight
Extensions(raw) ==
    {raw \o <<flights_data[k]>> : k \in {f \in 1..Len(flights_data) : AllStationary(<<f>>)}}
        \cup {[raw EXCEPT ![Len(raw)] = AppendStationary(raw[Len(raw)])]}

\* the train call with outcomes rs completes, and with the coefficients b
SameCoefficients(rs, b) ==
    /\ \E r \in rs : r.status = "ok"
    /\ \A r \in rs : r.status = "ok" => r.beta = b

\* C10: appending stationary rows to a training set on which train
\* completed leaves the fitted coefficients unchanged: training on the
\* extended set completes with the same beta.
C10_StationaryRowsKeepBeta ==
    (outcome.op = "train" /\ outcome.status = "ok")
        => \A e \in Extensions(Arr([i \in 1..Len(ids_list) |-> flights_data[ids_list[i]]])) :
               SameCoefficients(train(variant, e), self_beta)

\* a FinalModel has trained on the mixed flight, its coefficients are not
\* all zero, and an extension by stationary rows changes the default usage
C10_Witness ==
    /\ outcome.op = "train" /\ outcome.status = "ok"
    /\ variant = "FinalModel" /\ ids_list = <<1>>
    /\ \E j \in 1..Len(self_beta) : self_beta[j][1] # 0
    /\ \E e \in Extensions(<<flights_data[1]>>) :
          \E r \in train(variant, e) :
              r.status = "ok" /\ r.default_usage # self_default_usage

\* the flight files of ids as create_dataframes_list reads them
RawFrames(ids) == Arr([i \in 1..Len(ids) |-> flights_data[ids[i]]])

\* the power indicators of the stationary rows of the merged frame all
StationaryIndicators(all) ==
    LET ind == IndicatorOf(all)
    IN  Arr([k \in 1..Len(Sorted({r \in 1..NRows(all) : all.data[r]["is_moving"] = Zero})) |->
            ind[Sorted({r \in 1..NRows(all) : all.data[r]["is_moving"] = Zero})[k]]])

\* the claim as worded, over the rows of the training flights themselves:
\* after a completed train the default usage is the arithmetic mean of the
\* power indicator over exactly the input rows whose is_moving is false
\* ((a + b + c) / 3 for stationary rows with indicators a, b, c)
C11_BaselineIsMeanOfInputRows ==
    (outcome.op = "train" /\ outcome.status = "ok")
        => self_default_usage = mean(StationaryIndicators(concat(RawFrames(ids_list))))

\* C11: after a completed train the default usage is the arithmetic mean of
\* the power indicator over exactly the rows of the merged feature-derived
\* training frame whose is_moving is false (for FinalModel: without the
\* first row of each flight, with the zero row added to each flight);
\* moving rows never contribute.
C11_BaselineIsMeanOfDerivedRows ==
    (outcome.op = "train" /\ outcome.status = "ok")
        => self_default_usage = mean(StationaryIndicators(MergedOf(dfs_list)))

\* a FinalModel has trained on the mixed flight: the default usage is a
\* number, and it is not the mean over the stationary rows of the file
C11_Witness ==
    /\ outcome.op = "train" /\ outcome.status = "ok"
    /\ variant = "FinalModel" /\ ids_list = <<1>>
    /\ ~IsNaN(self_default_usage)
    /\ self_default_usage # mean(StationaryIndicators(concat(RawFrames(ids_list))))

\* the merged frame all has a moving row and no stationary row
OnlyMoving(all) ==
    /\ "is_moving" \in Cols(all)
    /\ \E r \in 1..NRows(all) : all.data[r]["is_moving"] = One
    /\ \A r \in 1..NRows(all) : all.data[r]["is_moving"] # Zero

\* what C12 promises of a model whose fields come from such a training:
\* fitted coefficients, a NaN default usage that can be read and reported,
\* and forecasts that return, with NaN at the stationary rows
TrainedWithoutBaseline ==
    /\ self_beta # None /\ Len(self_beta) = 1 + Len(PredictorSpec(variant))
    /\ self_default_usage = NaN
    /\ outcome.op \in {"default_usage", "print_training_results", "beta"}
          => outcome.status = "ok"
    /\ outcome.op = "default_usage" => outcome.value = <<NaN>>
    /\ (outcome.op = "forecast" /\ WellFormed(dfs_list[outcome.arg]))
          => /\ outcome.status = "ok"
             /\ BaselineAtStationary(spec_model_calc(variant, dfs_list[outcome.arg]).df,
                                      outcome.index, outcome.value, NaN)

\* the claim as worded, over the rows of the training flights themselves:
\* training on flights with a moving row and no stationary row leaves the
\* default usage NaN
C12_NoStationaryInputRows ==
    (trained_on # None /\ OnlyMoving(concat(RawFrames(trained_on[1]))))
        => TrainedWithoutBaseline

\* C12: when the merged feature-derived training frame has a moving row and
\* no stationary row, train completes: the coefficients are fitted, the
\* default usage is NaN, reading it and the report do not raise, and a
\* later forecast returns NaN at the stationary rows.
C12_NoStationaryDerivedRows ==
    (trained_on # None /\ OnlyMoving(MergedOf(RawFrames(trained_on[1]))))
        => TrainedWithoutBaseline

\* a BaseLineModel trained on the flight that always moves has forecast the
\* mixed flight: NaN at its stationary rows, numbers at its moving rows
C12_Witness ==
    /\ Forecasted
    /\ variant = "BaseLineModel" /\ trained_on = <<(<<2>>)>> /\ ids_list[outcome.arg] = 1
    /\ self_default_usage = NaN
    /\ \E i \in 1..Len(outcome.value) : IsNaN(outcome.value[i])
    /\ \E i \in 1..Len(outcome.value) : ~IsNaN(outcome.value[i])

\* the fields are those a train call on dfs by a fresh model would store
AsFreshlyTrained(rs) ==
    \E r \in rs :
        r.status = "ok" /\ r.beta = self_beta /\ r.default_usage = self_default_usage

\* C13: re-training overwrites both fields: whatever was trained, forecast
\* or reported before, the coefficients and the default usage are those a
\* freshly constructed model of the same class holds after the last
\* completed train call alone, on the same flights.
C13_RetrainOverwrites ==
    trained_on # None => AsFreshlyTrained(train(variant, RawFrames(trained_on[1])))

\* a FinalModel trained on the mixed flight after a training on other
\* flights, with coefficients that are not all zero
C13_Witness ==
    /\ retrained /\ outcome.op = "train" /\ outcome.status = "ok"
    /\ variant = "FinalModel" /\ trained_on = <<(<<1>>)>>
    /\ \E j \in 1..Len(self_beta) : self_beta[j][1] # 0

\* the coefficient vectors [c0, c1, ..., ck] the synthetic flights were
\* generated with
recovery_coefficients ==
    {Arr([j \in 1..Len(c) |-> Rat(c[j])]) :
        c \in {<<1, 1, 1, 1, 1, 1>>, <<1, 1, -1, 1, 2, 2>>, <<1, 1, 1, 0, 2, 3>>, <<8>>, <<1>>}}

\* the positions of the moving rows of the merged frame all
MovingRows(all) == Sorted({r \in 1..NRows(all) : all.data[r]["is_moving"] = One})

\* every moving row of all has, without noise, the power indicator
\* c[0] + sum of c[j] * predictor j
NoiseFree(all, y, c) ==
    /\ MovingRows(all) # <<>>
    /\ \A r \in 1..NRows(all) :
          all.data[r]["is_moving"] = One => y[r] = Linear(all.data[r], c)

\* P is a left inverse of X: P X is the identity, so the n columns of X are
\* linearly independent
LeftInverse(P, X, n) ==
    \A i, j \in 1..n : Dot(P[i], Column(X, j)) = IF i = j THEN One ELSE Zero

FullColumnRank(X, n) == Len(X) >= n /\ LeftInverse(Pinv(X, n), X, n)

\* the stored coefficients are every generating vector of the training frame
Recovered(all) ==
    \A c \in recovery_coefficients :
        (/\ Len(c) = 1 + Len(PredictorSpec(variant))
         /\ NoiseFree(all, IndicatorOf(all), c)
         /\ FullColumnRank(DesignMatrix(all, MovingRows(all), PredictorSpec(variant)), Len(c)))
            => self_beta = c

\* C14: for a noise-free, full-column-rank moving-phase training set whose
\* power indicator is c0 + sum of ci * xi, train stores exactly
\* [c0, c1, ..., ck]: the intercept first, then one coefficient per predictor
\* in predictors_list order; the vector has 1 + number of predictors entries.
C14_CoefficientRecovery ==
    (outcome.op = "train" /\ outcome.status = "ok")
        => (/\ Len(self_beta) = 1 + Len(PredictorSpec(variant))
            /\ Recovered(MergedOf(dfs_list)))

\* a FinalModel has trained on the synthetic flight generated with a
\* negative force coefficient, and holds the generating coefficients
C14_Witness ==
    /\ outcome.op = "train" /\ outcome.status = "ok"
    /\ variant = "FinalModel"
    /\ self_beta = <<Rat(1), Rat(1), Rat(-1), Rat(1), Rat(2), Rat(2)>>
    /\ NoiseFree(MergedOf(dfs_list), IndicatorOf(MergedOf(dfs_list)), self_beta)
    /\ FullColumnRank(DesignMatrix(MergedOf(dfs_list), MovingRows(MergedOf(dfs_list)),
                                   PredictorSpec(variant)), 6)

(***************************************************************************)
(* Properties of the evaluator                                             *)
(***************************************************************************)
\* the last statement was an _execute_test that returned
Evaluated == outcome.op = "_execute_test" /\ outcome.status = "ok"

\* the true energy of every row of the prepared frame of a flight file
TrueEnergy(df) ==
    Arr([i \in 1..NRows(df) |->
           RMul(RMul(df.data[i]["voltage"], df.data[i]["current"]),
                df.data[i]["delta_time"])])

\* |T - P| / T * 100
TrailingAPE(T, P) == RMul(RDiv(RAbs(RSub(T, P)), T), Rat(100))

\* C15: the score appended to the results for an evaluated flight is the
\* absolute difference of the last true and the last predicted cumulative
\* energy, each the sum of the energies of every row of the flight, divided
\* by the last true cumulative energy, times 100; cumulative true
\* [10, 30, 60] and predicted [12, 30, 63] score 5.
C15_TrailingAPE ==
    /\ ape(<<Rat(10), Rat(30), Rat(60)>>,
           [index |-> <<0, 1, 2>>, value |-> <<Rat(12), Rat(30), Rat(63)>>]) = Rat(5)
    /\ (Evaluated /\ RSum(TrueEnergy(Prepare(evaluation_data[outcome.arg]))) # Zero)
           => tests_maker.results[Len(tests_maker.results)]
                  = TrailingAPE(RSum(TrueEnergy(Prepare(evaluation_data[outcome.arg]))),
                                RSum(run.seen.energy_pred.value))

\* the reference variant was scored on the flight with both phases: true
\* energies 8, 27, 8, 0 against the predicted 1, 27, 1, 1
C15_Witness ==
    /\ Evaluated
    /\ variant = "FinalModel"
    /\ outcome.arg = 1
    /\ tests_maker.results = <<Norm(1300, 43)>>

\* the forecast the evaluated model returns for the prepared frame df
ForecastOf(df) == forecast(variant, self_beta, self_default_usage, df)

\* the predicted energy of every row of df: the forecast value labelled as
\* the row times the row's delta_time
PredictedEnergy(df, f) ==
    Arr([i \in 1..NRows(df) |->
           IF Loc(f.index, df.index[i]) = 0 THEN NaN
           ELSE RMul(f.value[Loc(f.index, df.index[i])], df.data[i]["delta_time"])])

\* the sums of the first 1, 2, ... values
RunningSums(vals) == Arr([i \in 1..Len(vals) |-> RSum(SubSeq(vals, 1, i))])

\* the fields _model_evaluation read are the row-by-row energies of df
RowByRow(df, f, m) ==
    /\ \A i \in 1..NRows(df) : Loc(f.index, df.index[i]) # 0
    /\ m.energy = Array(TrueEnergy(df))
    /\ m.energy_cum = Array(RunningSums(TrueEnergy(df)))
    /\ m.energy_pred = [index |-> df.index, value |-> PredictedEnergy(df, f)]
    /\ m.energy_pred_cum = [index |-> df.index,
                            value |-> RunningSums(PredictedEnergy(df, f))]

\* C16: in a flight's evaluation the true energy of row i is voltage *
\* current * delta_time of row i, the predicted energy of row i is the
\* forecast value for row i times delta_time of row i, each cumulative
\* series at row i is the sum of the energies of rows 0..i, and the true
\* and predicted series have the same length and row order, for both
\* variants.
C16_EnergiesRowByRow ==
    Evaluated => RowByRow(Prepare(evaluation_data[outcome.arg]),
                          ForecastOf(Prepare(evaluation_data[outcome.arg])),
                          run.seen)

\* the reference variant forecast the flight with both phases: the forecast
\* comes back with the row labels 1, 2, 3, 0 and the predicted energies are
\* in the order of the rows 0, 1, 2, 3
C16_Witness ==
    /\ Evaluated
    /\ variant = "FinalModel"
    /\ outcome.arg = 1
    /\ run.seen.power_pred = [index |-> <<1, 2, 3, 0>>,
                              value |-> <<Rat(27), Rat(1), Rat(1), Rat(1)>>]
    /\ run.seen.energy_pred = [index |-> <<0, 1, 2, 3>>,
                               value |-> <<Rat(1), Rat(27), Rat(1), Rat(1)>>]
    /\ run.seen.energy.value = <<Rat(8), Rat(27), Rat(8), Rat(0)>>

\* the rows with a non-zero true value, in order
NonZeroRows(true) == Sorted({i \in 1..Len(true) : true[i] # Zero})

\* 100 times the sum of |true - pred| / true over the rows with a non-zero
\* true value, divided by the number of these rows (NaN when there is none)
MeanPercentageOverNonZero(true, pred) ==
    RMul(RDiv(RSum(Arr([j \in 1..Len(NonZeroRows(true)) |->
                          RDiv(RAbs(RSub(true[NonZeroRows(true)[j]],
                                         pred[NonZeroRows(true)[j]])),
                               RAbs(true[NonZeroRows(true)[j]]))])),
              Rat(Len(NonZeroRows(true)))),
         Rat(100))

\* the evaluation of a flight with rows, forecast by the model, returns
Completes(df) ==
    (outcome.op = "_execute_test" /\ NRows(df) > 0 /\ ForecastOf(df).status = "ok")
        => outcome.status = "ok"

\* C17: the point-wise and the cumulative MAPE printed for a flight are the
\* averages over the rows whose true energy, respectively true cumulative
\* energy, is non-zero: rows with a zero true value add nothing to the sum
\* and nothing to the count, and the evaluation of a flight with such rows
\* returns.
C17_MapeOverNonZeroRows ==
    /\ Completes(Prepare(evaluation_data[outcome.arg]))
    /\ Evaluated =>
          /\ outcome.value[2] = MeanPercentageOverNonZero(run.seen.energy.value,
                                                          run.seen.energy_pred.value)
          /\ outcome.value[4] = MeanPercentageOverNonZero(run.seen.energy_cum.value,
                                                          run.seen.energy_pred_cum.value)

\* the flight that never moves was evaluated: true energies 0, 0, 8 and
\* cumulative 0, 0, 8 against the predicted 1, 1, 1 and 1, 2, 3
C17_Witness ==
    /\ Evaluated
    /\ variant = "FinalModel"
    /\ outcome.arg = 5
    /\ run.seen.energy.value = <<Zero, Zero, Rat(8)>>
    /\ run.seen.energy_cum.value = <<Zero, Zero, Rat(8)>>
    /\ outcome.value[2] = Norm(175, 2)
    /\ outcome.value[4] = Norm(125, 2)

\* every value of the series is the same
Constant(vals) == \A i, j \in 1..Len(vals) : vals[i] = vals[j]

\* the evaluation of a flight with rows and a constant true energy, forecast
\* by the model, returns
CompletesOnConstant(df) ==
    (/\ outcome.op = "_execute_test"
     /\ NRows(df) > 0
     /\ Constant(TrueEnergy(df))
     /\ ForecastOf(df).status = "ok")
        => Evaluated

\* C18: when the true energy series, or the true cumulative series, of a
\* flight is constant (its total sum of squares is 0), the R-squared printed
\* for that series is NaN, the evaluation returns and one more score, the
\* flight's trailing APE, is in the results.
C18_ConstantSeriesNotFatal ==
    /\ CompletesOnConstant(Prepare(evaluation_data[outcome.arg]))
    /\ Evaluated =>
          /\ Constant(run.seen.energy.value) => outcome.value[5] = NaN
          /\ Constant(run.seen.energy_cum.value) => outcome.value[6] = NaN
          /\ run.k >= 1
          /\ Len(tests_maker.results) = Len(run.before) + run.k
          /\ tests_maker.results[Len(tests_maker.results)] = outcome.value[8]

\* the flight with constant energy 8, 8 was evaluated against the predicted
\* 1, 8: its R-squared is NaN and its score 43.75 is in the results
C18_Witness ==
    /\ Evaluated
    /\ variant = "FinalModel"
    /\ outcome.arg = 2
    /\ run.seen.energy.value = <<Rat(8), Rat(8)>>
    /\ run.seen.energy_pred.value = <<Rat(1), Rat(8)>>
    /\ outcome.value[5] = NaN
    /\ tests_maker.results[Len(tests_maker.results)] = Norm(175, 4)

\* the score of a flight: what a fresh evaluator appends when it evaluates
\* the flight with the model
Score(test) ==
    ExecuteTest(TestsMaker(<<>>), variant, self_beta, self_default_usage, test).self.results[1]

InResetState(self) ==
    /\ self.time = ndarray
    /\ self.batt_state = Scalar(One)
    /\ self.power = ndarray
    /\ self.energy = ndarray
    /\ self.energy_cum = ndarray
    /\ self.power_pred = ndarray
    /\ self.energy_pred = ndarray
    /\ self.energy_pred_cum = ndarray

Selected == outcome.op = "get_flights_ids"

\* an item of the conditions names a column that the parameter table lacks
NamesAbsentColumn ==
    \E i \in 1..Len(conditions) : conditions[i].column \notin Cols(param_data)

\* C21: flight selection fails, returning no list of ids, whenever an item
\* of the conditions names a column absent from the parameter table,
\* wherever the item sits in the mapping and whether or not the items
\* before it have already filtered the table down to no rows.
C21_AbsentColumnFails ==
    (Selected /\ NamesAbsentColumn) => outcome.status = "ValueError"

\* x <= y for two numbers
RLeq(x, y) == RSub(x, y)[1] <= 0

\* the battery's capacity in joules: 4500 mAh at 22.2 V, no loss for
\* temperature or wear
FullCapacity == Rat(359640)

\* soc is the trajectory 1 - usage / FullCapacity, one value per entry of
\* usage
Discharge(soc, usage) ==
    /\ soc.index = usage.index
    /\ Len(soc.value) = Len(usage.value)
    /\ \A i \in 1..Len(usage.value) :
           /\ soc.value[i] = RSub(One, RDiv(usage.value[i], FullCapacity))
           /\ usage.value[i] = Zero => soc.value[i] = One

\* soc never rises from one row to the next
NonIncreasing(soc) ==
    \A i \in 1..(Len(soc) - 1) : RLeq(soc[i + 1], soc[i])

\* C22: the state-of-charge trajectory of an evaluated flight has one value
\* per row of the predicted cumulative energy, 1 - predicted cumulative
\* energy / effective capacity with one effective capacity (full charge,
\* wear coefficient 1) for the whole flight: it is 1 where no energy has
\* been used, and it is non-increasing over the rows when no predicted
\* per-row energy is negative.
C22_StateOfCharge ==
    Evaluated =>
        /\ Discharge(run.seen.batt_state, run.seen.energy_pred_cum)
        /\ (\A i \in 1..Len(run.seen.energy_pred.value) :
                RLeq(Zero, run.seen.energy_pred.value[i]))
              => NonIncreasing(run.seen.batt_state.value)
        /\ outcome.value[9]
              = RMul(run.seen.batt_state.value[Len(run.seen.batt_state.value)], Rat(100))

\* the flight whose first two records have the same time was evaluated: no
\* energy in its first row, then 1 joule per row
C22_Witness ==
    /\ Evaluated
    /\ variant = "FinalModel"
    /\ outcome.arg = 7
    /\ run.seen.energy_pred_cum.value = <<Zero, Rat(1), Rat(2)>>
    /\ run.seen.batt_state.value = <<One, Norm(359639, 359640), Norm(359638, 359640)>>

(***************************************************************************)
(* Properties of the feature derivation                                    *)
(***************************************************************************)
\* the columns FinalModel.spec_model_calc adds
DerivedColumns ==
    {"xy_air_speed", "xy_air_acceleration", "z_acceleration", "force_z",
     "force_xy", "velocity_xy_factor", "velocity_z_factor"}

\* d has as many rows as the flight df, a first row whose derived columns
\* are all 0, and after it the rows 2..n of wide, the flight with its
\* derived columns, in their order
SyntheticRowAtHead(d, df, wide) ==
    /\ NRows(d) = NRows(df)
    /\ \A c \in DerivedColumns : d.data[1][c] = Zero
    /\ \A i \in 2..NRows(df) : d.data[i] = wide.data[i]

\* C23: for the reference variant the feature derivation of a flight of
\* n >= 1 complete rows has n rows: first a synthetic row with every derived
\* column 0, then the derived versions of the input rows 2..n in their
\* original order.
C23_SyntheticRowAtHead ==
    (Forecasted /\ variant = "FinalModel" /\ NRows(dfs_list[outcome.arg]) >= 1)
        => SyntheticRowAtHead(spec_model_calc(variant, dfs_list[outcome.arg]).df,
                              dfs_list[outcome.arg],
                              FinalModelColumns(dfs_list[outcome.arg]).df)

(***************************************************************************)
(* Properties of the model's fields                                        *)
(***************************************************************************)
\* C24: in every state reached by constructing a model and calling train
\* (returning or failing), forecast and the report in any order, the
\* coefficient vector and the stationary baseline are both unset or both
\* set; no call observes a model with exactly one of them.
C24_FieldsSetTogether ==
    (self_beta = None) <=> (self_default_usage = None)

\* the report printed a model trained on a flight without stationary rows:
\* the coefficients and a baseline that is set, to NaN
C24_Witness ==
    /\ outcome.op = "print_training_results"
    /\ outcome.status = "ok"
    /\ variant = "BaseLineModel"
    /\ self_beta # None
    /\ self_default_usage = NaN

====
